---- MODULE Spec2Model ----
(***************************************************************************)
(* A model of flows_to_api.py: schema inference and merge, URL             *)
(* templating, content decoding and the assembly of the OpenAPI document.  *)
(*                                                                         *)
(* Encoding of Python data:                                                *)
(*   str            a sequence of one-character strings, "ab" = <<"a","b">> *)
(*   dict, fixed keys     a record whose fields are exactly the keys present*)
(*   dict, computed keys  a function whose domain is a set of str           *)
(*   {}             the function with the empty domain                      *)
(*   list           a sequence                                              *)
(*   a decoded JSON value   a record tagged by k (the Python type)          *)
(*   a raised exception     the record [raise |-> <exception class>]        *)
(* The list under 'anyOf' is built by iterating over a Python set of str,   *)
(* whose order differs from run to run; it is modelled as a set.            *)
(***************************************************************************)
EXTENDS Integers, Sequences, FiniteSets, TLC

VARIABLES pc, samples, schemas, merged, url, templated, content, mimeType, decoded,
          flows, host, flowIndex, rezx, NON_BASE_URL, stdout, oapi

vars == <<pc, samples, schemas, merged, url, templated, content, mimeType, decoded,
          flows, host, flowIndex, rezx, NON_BASE_URL, stdout, oapi>>
apiVars == <<flows, host, flowIndex, rezx, NON_BASE_URL, stdout, oapi>>
schemaVars == <<samples, schemas, merged>>
urlVars == <<url, templated>>
jsonVars == <<content, mimeType, decoded>>

(***************************************************************************)
(* Bounds                                                                  *)
(***************************************************************************)
MaxLen == 2
MaxSamples == 2
MaxSegs == 2
MaxContentLen == 3
MaxFlows == 2

SeqsUpTo(S, n) == UNION {[1..m -> S] : m \in 0..n}

Range(f) == {f[i] : i \in DOMAIN f}

(***************************************************************************)
(* Decoded values (what json.loads or the fallbacks of jsonify return)     *)
(***************************************************************************)
Str(s) == [k |-> "str", s |-> s]
Num(n) == [k |-> "num", n |-> n]
Bool(b) == [k |-> "bool", b |-> b]
Null == [k |-> "null"]
List(xs) == [k |-> "list", items |-> xs]
Obj(fs) == [k |-> "obj", fields |-> fs]
Field(key, val) == [key |-> key, val |-> val]

Raise(e) == [raise |-> e]
IsRaise(x) == "raise" \in DOMAIN x

EmptySchema == [x \in {} |-> TRUE]
Has(d, key) == key \in DOMAIN d

(***************************************************************************)
(* Python str operations on sequences of characters                        *)
(***************************************************************************)
\* the printable ASCII characters, code points 32 to 126 (the grave accent,
\* which a TLA+ string cannot hold, is written U+0060)
Chars == <<" ", "!", "\"", "#", "$", "%", "&", "'", "(", ")", "*", "+", ",", "-", ".", "/",
           "0", "1", "2", "3", "4", "5", "6", "7", "8", "9", ":", ";", "<", "=", ">", "?",
           "@", "A", "B", "C", "D", "E", "F", "G", "H", "I", "J", "K", "L", "M", "N", "O",
           "P", "Q", "R", "S", "T", "U", "V", "W", "X", "Y", "Z", "[", "\\", "]", "^", "_",
           "U+0060", "a", "b", "c", "d", "e", "f", "g", "h", "i", "j", "k", "l", "m", "n", "o",
           "p", "q", "r", "s", "t", "u", "v", "w", "x", "y", "z", "{", "|", "}", "~">>
OrdTable == [c \in {Chars[n] : n \in DOMAIN Chars} |->
               31 + CHOOSE n \in DOMAIN Chars : Chars[n] = c]
Ord(c) == OrdTable[c]
Chr(n) == IF n \in 32..126 THEN Chars[n - 31] ELSE "U+FFFD"

Digits == {"0", "1", "2", "3", "4", "5", "6", "7", "8", "9"}
HexDigits == Digits \cup {"a", "b", "c", "d", "e", "f", "A", "B", "C", "D", "E", "F"}
DigitVal(c) == Ord(c) - 48
HexVal(c) == IF c \in Digits THEN Ord(c) - 48
             ELSE IF Ord(c) >= 97 THEN Ord(c) - 87 ELSE Ord(c) - 55

\* str.isdigit, on ASCII text
isdigit(s) == s # <<>> /\ \A i \in DOMAIN s : s[i] \in Digits

\* str.lower, on ASCII text
lower(s) == [i \in DOMAIN s |-> IF Ord(s[i]) \in 65..90 THEN Chr(Ord(s[i]) + 32) ELSE s[i]]

\* int(s) for a string of digits
RECURSIVE int(_)
int(s) == IF s = <<>> THEN 0 ELSE 10 * int(SubSeq(s, 1, Len(s) - 1)) + DigitVal(s[Len(s)])

\* str(n) for n >= 0
RECURSIVE str(_)
str(n) == IF n < 10 THEN <<Chr(48 + n)>> ELSE str(n \div 10) \o <<Chr(48 + (n % 10))>>

Contains(s, c) == \E i \in DOMAIN s : s[i] = c
Find(s, c) == CHOOSE i \in DOMAIN s : s[i] = c /\ \A j \in 1..(i - 1) : s[j] # c
Tail0(s, i) == SubSeq(s, i + 1, Len(s))
startswith(s, prefix) == Len(prefix) <= Len(s) /\ SubSeq(s, 1, Len(prefix)) = prefix
count(s, c) == Cardinality({i \in DOMAIN s : s[i] = c})

\* s.split(c)
RECURSIVE split(_, _)
split(s, c) ==
  IF ~Contains(s, c) THEN <<s>>
  ELSE <<SubSeq(s, 1, Find(s, c) - 1)>> \o split(Tail0(s, Find(s, c)), c)

\* s.split(c, 1)
split1(s, c) ==
  IF ~Contains(s, c) THEN <<s>>
  ELSE <<SubSeq(s, 1, Find(s, c) - 1), Tail0(s, Find(s, c))>>

\* c.join(parts)
RECURSIVE join(_, _)
join(c, parts) ==
  IF parts = <<>> THEN <<>>
  ELSE IF Len(parts) = 1 THEN parts[1]
  ELSE parts[1] \o <<c>> \o join(c, Tail(parts))

\* urllib.parse.unquote on a str whose escapes decode to printable ASCII:
\* "%" followed by two hex digits is the character of that code, any other
\* "%" stays as it is
RECURSIVE PercentDecode(_)
PercentDecode(s) ==
  IF s = <<>> THEN <<>>
  ELSE IF s[1] = "%" /\ Len(s) >= 3 /\ s[2] \in HexDigits /\ s[3] \in HexDigits
       THEN <<Chr(16 * HexVal(s[2]) + HexVal(s[3]))>> \o PercentDecode(Tail0(s, 3))
  ELSE <<s[1]>> \o PercentDecode(Tail(s))

\* urllib.parse.unquote(value): `'%' not in value` raises TypeError unless
\* value is a str (or bytes, which never reach it)
unquote(value) ==
  IF value.k # "str" THEN Raise("TypeError") ELSE Str(PercentDecode(value.s))

(***************************************************************************)
(* guess_type, is_parameter, url_to_params                                 *)
(***************************************************************************)
guess_type(strvalue) ==
  IF isdigit(strvalue) THEN <<[type |-> "number"], Num(int(strvalue))>>
  ELSE <<[type |-> "string"], Str(strvalue)>>

\* _UUID_RE.match: 8-4-4-4-12 hex digits; `$` also matches before a final newline
UuidShape(s) ==
  \A i \in 1..36 : IF i \in {9, 14, 19, 24} THEN s[i] = "-" ELSE s[i] \in HexDigits
UUID_RE_match(s) ==
  \/ Len(s) = 36 /\ UuidShape(s)
  \/ Len(s) = 37 /\ s[37] = "\n" /\ UuidShape(s)

is_parameter(value) == isdigit(value) \/ UUID_RE_match(value)

sParam == <<"p", "a", "r", "a", "m">>
sPath == <<"p", "a", "t", "h">>
sQuery == <<"q", "u", "e", "r", "y">>

\* the loop of url_to_params over urlParts[from..]; i counts the parameters
RECURSIVE UrlLoop(_, _, _, _)
UrlLoop(urlParts, i, resultUrl, params) ==
  IF urlParts = <<>> THEN [url |-> <<"/">> \o join("/", resultUrl), params |-> params]
  ELSE
  LET part == Head(urlParts) IN
  IF is_parameter(part) THEN
    LET sch == guess_type(part)[1]
        value == unquote(guess_type(part)[2])
    IN IF IsRaise(value) THEN value
       ELSE UrlLoop(Tail(urlParts), i + 1,
                    Append(resultUrl, <<"{">> \o sParam \o str(i) \o <<"}">>),
                    Append(params, [name |-> sParam \o str(i), in |-> sPath,
                                    required |-> TRUE, schema |-> sch,
                                    example |-> value]))
  ELSE UrlLoop(Tail(urlParts), i, Append(resultUrl, part), params)

url_to_params(u) == UrlLoop(Tail(split(u, "/")), 0, <<>>, <<>>)

(***************************************************************************)
(* json.loads on text without backslash escapes, fractions and exponents   *)
(***************************************************************************)
Whitespace == {" ", "\t", "\n", "\r"}
sNull == <<"n", "u", "l", "l">>
sTrue == <<"t", "r", "u", "e">>
sFalse == <<"f", "a", "l", "s", "e">>

RECURSIVE SkipWs(_)
SkipWs(s) == IF s # <<>> /\ s[1] \in Whitespace THEN SkipWs(Tail(s)) ELSE s

Fail == [ok |-> FALSE]
Parsed(val, rest) == [ok |-> TRUE, val |-> val, rest |-> rest]

\* the longest prefix of digits
RECURSIVE DigitRun(_)
DigitRun(s) == IF s # <<>> /\ s[1] \in Digits THEN <<s[1]>> \o DigitRun(Tail(s)) ELSE <<>>

\* (0|[1-9]\d*) at the start of s
ParseNat(s) ==
  IF s = <<>> \/ s[1] \notin Digits THEN Fail
  ELSE IF s[1] = "0" THEN Parsed(Num(0), Tail(s))
  ELSE Parsed(Num(int(DigitRun(s))), Tail0(s, Len(DigitRun(s))))

\* s follows the opening quote; a string ends at the next quote
ParseStringBody(s) ==
  IF ~Contains(s, "\"") THEN Fail
  ELSE LET body == SubSeq(s, 1, Find(s, "\"") - 1) IN
       IF \E i \in DOMAIN body : body[i] \in {"\t", "\n", "\r"} THEN Fail
       ELSE Parsed(Str(body), Tail0(s, Find(s, "\"")))

\* dict[key] = val keeps the place of a key that is already there
PutField(fs, key, val) ==
  IF \E i \in DOMAIN fs : fs[i].key = key
  THEN [i \in DOMAIN fs |-> IF fs[i].key = key THEN Field(key, val) ELSE fs[i]]
  ELSE Append(fs, Field(key, val))

RECURSIVE ParseValue(_)
RECURSIVE ParseElems(_, _)
RECURSIVE ParseMembers(_, _)

\* s starts at the first character of a value
ParseValue(s) ==
  IF s = <<>> THEN Fail
  ELSE IF s[1] = "\"" THEN ParseStringBody(Tail(s))
  ELSE IF s[1] = "[" THEN
    IF SkipWs(Tail(s)) # <<>> /\ SkipWs(Tail(s))[1] = "]"
    THEN Parsed(List(<<>>), Tail(SkipWs(Tail(s))))
    ELSE ParseElems(SkipWs(Tail(s)), <<>>)
  ELSE IF s[1] = "{" THEN
    IF SkipWs(Tail(s)) # <<>> /\ SkipWs(Tail(s))[1] = "}"
    THEN Parsed(Obj(<<>>), Tail(SkipWs(Tail(s))))
    ELSE ParseMembers(SkipWs(Tail(s)), <<>>)
  ELSE IF startswith(s, sNull) THEN Parsed(Null, Tail0(s, 4))
  ELSE IF startswith(s, sTrue) THEN Parsed(Bool(TRUE), Tail0(s, 4))
  ELSE IF startswith(s, sFalse) THEN Parsed(Bool(FALSE), Tail0(s, 5))
  ELSE IF s[1] = "-" THEN
    LET r == ParseNat(Tail(s)) IN
    IF r.ok THEN Parsed(Num(0 - r.val.n), r.rest) ELSE Fail
  ELSE ParseNat(s)

\* s starts at an element of an array, acc holds the elements before it
ParseElems(s, acc) ==
  LET r == ParseValue(s) IN
  IF ~r.ok THEN Fail
  ELSE LET t == SkipWs(r.rest) IN
       IF t = <<>> THEN Fail
       ELSE IF t[1] = "," THEN ParseElems(SkipWs(Tail(t)), Append(acc, r.val))
       ELSE IF t[1] = "]" THEN Parsed(List(Append(acc, r.val)), Tail(t))
       ELSE Fail

\* s starts at a member of an object, acc holds the members before it
ParseMembers(s, acc) ==
  IF s = <<>> \/ s[1] # "\"" THEN Fail
  ELSE
  LET key == ParseStringBody(Tail(s)) IN
  IF ~key.ok THEN Fail
  ELSE
  LET t == SkipWs(key.rest) IN
  IF t = <<>> \/ t[1] # ":" THEN Fail
  ELSE
  LET r == ParseValue(SkipWs(Tail(t))) IN
  IF ~r.ok THEN Fail
  ELSE
  LET u == SkipWs(r.rest) IN
  IF u = <<>> THEN Fail
  ELSE IF u[1] = "," THEN ParseMembers(SkipWs(Tail(u)), PutField(acc, key.val.s, r.val))
  ELSE IF u[1] = "}" THEN Parsed(Obj(PutField(acc, key.val.s, r.val)), Tail(u))
  ELSE Fail

json_loads(text) ==
  LET r == ParseValue(SkipWs(text)) IN
  IF r.ok /\ SkipWs(r.rest) = <<>> THEN r.val ELSE Raise("JSONDecodeError")

(***************************************************************************)
(* jsonify                                                                 *)
(***************************************************************************)
APPLICATION_JSON == <<"a", "p", "p", "l", "i", "c", "a", "t", "i", "o", "n", "/", "j", "s", "o", "n">>
FORM_URLENCODED == <<"a", "p", "p", "l", "i", "c", "a", "t", "i", "o", "n", "/", "x", "-", "w", "w", "w", "-", "f", "o", "r", "m", "-", "u", "r", "l", "e", "n", "c", "o", "d", "e", "d">>

\* {k: v for k, v in (pt.split('=', 1) for pt in pts)}
RECURSIVE FormPairs(_, _)
FormPairs(pts, acc) ==
  IF pts = <<>> THEN Obj(acc)
  ELSE LET kv == split1(Head(pts), "=") IN
       IF Len(kv) # 2 THEN Raise("ValueError")
       ELSE FormPairs(Tail(pts), PutField(acc, kv[1], Str(kv[2])))

jsonify(text, mime0) ==
  LET mime == split1(mime0, ";")[1] IN
  IF ~IsRaise(json_loads(text)) THEN [value |-> json_loads(text), mimeType |-> APPLICATION_JSON]
  ELSE IF mime = FORM_URLENCODED THEN
    LET form == FormPairs(split(text, "&"), <<>>) IN
    IF IsRaise(form) THEN form ELSE [value |-> form, mimeType |-> mime]
  ELSE [value |-> Str(text), mimeType |-> mime]

(***************************************************************************)
(* schema_merge                                                            *)
(***************************************************************************)
RECURSIVE schema_merge(_)
schema_merge(schemas0) ==
  IF schemas0 = <<>> THEN Raise("ValueError")
  ELSE
  LET nonEmpty == SelectSeq(schemas0, LAMBDA s : s # EmptySchema) IN
  IF Len(nonEmpty) = 1 THEN nonEmpty[1]
  ELSE IF nonEmpty = <<>> THEN EmptySchema
  ELSE IF \E i \in DOMAIN nonEmpty : ~Has(nonEmpty[i], "type") THEN Raise("KeyError")
  ELSE
  LET types0 == {nonEmpty[i].type : i \in DOMAIN nonEmpty}
      hasNull == "null" \in types0
      types == types0 \ {"null"}
      res0 == IF hasNull THEN [nullable |-> TRUE] ELSE EmptySchema
      rest == IF hasNull THEN SelectSeq(nonEmpty, LAMBDA s : s.type # "null")
                         ELSE nonEmpty
  IN
  IF types = {} THEN [nullable |-> TRUE]
  ELSE IF Cardinality(types) > 1 THEN
    LET alts == {schema_merge(SelectSeq(rest, LAMBDA s : s.type = t)) : t \in types} IN
    IF \E a \in alts : IsRaise(a) THEN CHOOSE a \in alts : IsRaise(a)
    ELSE res0 @@ [anyOf |-> alts]
  ELSE
  LET theType == CHOOSE t \in types : TRUE
      res == res0 @@ [type |-> theType]
  IN
  IF theType \in {"string", "number", "boolean"} THEN res
  ELSE IF theType = "array" THEN
    IF \E i \in DOMAIN rest : ~Has(rest[i], "items") THEN Raise("KeyError")
    ELSE LET items == schema_merge([i \in DOMAIN rest |-> rest[i].items]) IN
         IF IsRaise(items) THEN items ELSE res @@ [items |-> items]
  ELSE IF theType = "object" THEN
    IF \E i \in DOMAIN rest : ~Has(rest[i], "properties") THEN Raise("KeyError")
    ELSE
    LET sprops == [i \in DOMAIN rest |-> rest[i].properties]
        allProps == UNION {DOMAIN sprops[i] : i \in DOMAIN sprops}
        having(prop) == SelectSeq(sprops, LAMBDA sp : prop \in DOMAIN sp)
        props == [prop \in allProps |->
                    schema_merge([i \in DOMAIN having(prop) |-> having(prop)[i][prop]])]
    IN IF \E prop \in allProps : IsRaise(props[prop])
       THEN props[CHOOSE prop \in allProps : IsRaise(props[prop])]
       ELSE res @@ [properties |-> props]
  ELSE [none |-> TRUE]

(***************************************************************************)
(* create_schema_for_value                                                 *)
(***************************************************************************)
\* bool is a subclass of int: isinstance(True, (int, float)) holds
IsIntOrFloat(value) == value.k \in {"num", "bool"}

RECURSIVE create_schema_for_value(_)
create_schema_for_value(value) ==
  IF value.k = "str" THEN [type |-> "string"]
  ELSE IF IsIntOrFloat(value) THEN [type |-> "number"]
  ELSE IF value.k = "bool" THEN [type |-> "boolean"]
  ELSE IF value.k = "null" THEN [type |-> "null"]
  ELSE IF value.k = "list" THEN
    IF Len(value.items) = 0 THEN [type |-> "array", items |-> EmptySchema]
    ELSE
    LET subs == [i \in DOMAIN value.items |-> create_schema_for_value(value.items[i])] IN
    IF \E i \in DOMAIN subs : IsRaise(subs[i])
    THEN subs[CHOOSE i \in DOMAIN subs : IsRaise(subs[i])]
    ELSE LET items == schema_merge(subs) IN
         IF IsRaise(items) THEN items ELSE [type |-> "array", items |-> items]
  ELSE IF value.k = "obj" THEN
    LET fs == value.fields
        keys == {fs[i].key : i \in DOMAIN fs}
        valOf(key) == fs[CHOOSE i \in DOMAIN fs : fs[i].key = key].val
        props == [key \in keys |-> create_schema_for_value(valOf(key))]
    IN IF \E key \in keys : IsRaise(props[key])
       THEN props[CHOOSE key \in keys : IsRaise(props[key])]
       ELSE [type |-> "object", properties |-> props,
             required |-> [i \in DOMAIN fs |-> fs[i].key]]
  ELSE Raise("TypeError")

(***************************************************************************)
(* Merge functions: each returns [val |-> the merged thing] or a raise     *)
(***************************************************************************)
Val(x) == [val |-> x]
Wrap(x) == IF IsRaise(x) THEN x ELSE Val(x)

\* the function w that _dict_merge returns; merger(key, items) stands for
\* merger.get(key, default_merger)(items), a ValueError where neither exists
dict_merge(merger(_, _), dicts) ==
  LET keys == UNION {DOMAIN dicts[i] : i \in DOMAIN dicts}
      having(key) == SelectSeq(dicts, LAMBDA d : key \in DOMAIN d)
      resp == [key \in keys |->
                 merger(key, [i \in DOMAIN having(key) |-> having(key)[i][key]])]
  IN IF \E key \in keys : IsRaise(resp[key])
     THEN resp[CHOOSE key \in keys : IsRaise(resp[key])]
     ELSE Val([key \in keys |-> resp[key].val])

first_merge(items) == Val(items[1])

\* s < t for str, by code points
RECURSIVE StrLess(_, _)
StrLess(s, t) ==
  IF t = <<>> THEN FALSE
  ELSE IF s = <<>> THEN TRUE
  ELSE IF s[1] = t[1] THEN StrLess(Tail(s), Tail(t))
  ELSE Ord(s[1]) < Ord(t[1])

\* sorted(S) for a set of str
RECURSIVE SortedSeq(_)
SortedSeq(S) ==
  IF S = {} THEN <<>>
  ELSE LET least == CHOOSE x \in S : \A y \in S \ {x} : StrLess(x, y)
       IN <<least>> \o SortedSeq(S \ {least})

RECURSIVE Flatten(_)
Flatten(lists) == IF lists = <<>> THEN <<>> ELSE Head(lists) \o Flatten(Tail(lists))

\* the function w that _selector_merge returns for a merger that is one
\* function: the groups of a stable sort by selectorfn, one result per key
selector_merge(selectorfn(_), merger(_), lists) ==
  LET items == Flatten(lists)
      keys == SortedSeq({selectorfn(items[i]) : i \in DOMAIN items})
      resp == [n \in DOMAIN keys |->
                 merger(SelectSeq(items, LAMBDA item : selectorfn(item) = keys[n]))]
  IN IF \E n \in DOMAIN keys : IsRaise(resp[n])
     THEN resp[CHOOSE n \in DOMAIN keys : IsRaise(resp[n])]
     ELSE Val([n \in DOMAIN keys |-> resp[n].val])

selector(parameter) == parameter.in \o <<":">> \o parameter.name

parameter_merge(key, items) ==
  IF key \in {"in", "name", "example"} THEN first_merge(items)
  ELSE IF key = "schema" THEN Wrap(schema_merge(items))
  ELSE Raise("ValueError")

parameters_merge(parameters) ==
  selector_merge(selector, LAMBDA group : dict_merge(parameter_merge, group), parameters)

media_type_object_merge(dicts) ==
  dict_merge(LAMBDA key, items : IF key = "schema" THEN Wrap(schema_merge(items))
                                 ELSE IF key = "example" THEN first_merge(items)
                                 ELSE Raise("ValueError"), dicts)

content_merge(dicts) == dict_merge(LAMBDA key, items : media_type_object_merge(items), dicts)

request_body_merge(dicts) ==
  dict_merge(LAMBDA key, items : IF key = "description" THEN first_merge(items)
                                 ELSE IF key = "content" THEN content_merge(items)
                                 ELSE Raise("ValueError"), dicts)

response_merge(dicts) ==
  dict_merge(LAMBDA key, items : IF key = "description" THEN first_merge(items)
                                 ELSE IF key = "content" THEN content_merge(items)
                                 ELSE Raise("ValueError"), dicts)

operation_merge(dicts) ==
  dict_merge(LAMBDA key, items :
               IF key = "parameters" THEN parameters_merge(items)
               ELSE IF key = "responses"
                    THEN dict_merge(LAMBDA code, rs : response_merge(rs), items)
               ELSE IF key = "requestBody" THEN request_body_merge(items)
               ELSE Raise("ValueError"), dicts)

sParameters == <<"p", "a", "r", "a", "m", "e", "t", "e", "r", "s">>

path_item_merge(dicts) ==
  dict_merge(LAMBDA key, items : IF key = sParameters THEN first_merge(items)
                                 ELSE operation_merge(items), dicts)

(***************************************************************************)
(* path_item_create                                                        *)
(***************************************************************************)
BODY_METHODS == {<<"p", "o", "s", "t">>, <<"p", "u", "t">>, <<"p", "a", "t", "c", "h">>}
sContentType == <<"C", "o", "n", "t", "e", "n", "t", "-", "T", "y", "p", "e">>
TEXT_PLAIN == <<"t", "e", "x", "t", "/", "p", "l", "a", "i", "n">>

None == [none |-> TRUE]

get_header(headers, name, default) ==
  IF \E i \in DOMAIN headers : lower(headers[i][1]) = lower(name)
  THEN headers[CHOOSE i \in DOMAIN headers :
                 /\ lower(headers[i][1]) = lower(name)
                 /\ \A j \in 1..(i - 1) : lower(headers[j][1]) # lower(name)][2]
  ELSE default

create_content(content_type, parsed) ==
  LET sch == create_schema_for_value(parsed) IN
  IF IsRaise(sch) THEN sch
  ELSE Val(content_type :> [schema |-> sch, example |-> parsed])

query_parameter(qparam) ==
  LET nv == IF Contains(qparam, "=") THEN split1(qparam, "=") ELSE <<qparam, <<>> >>
      name == PercentDecode(nv[1])
      guess == guess_type(PercentDecode(nv[2]))
  IN [name |-> name, in |-> sQuery, schema |-> guess[1], example |-> guess[2]]

\* the operation object and the result of path_item_create, once the url
\* is templated and the contents are built
PathItemResult(method, resp, query_params, templ, respContent, reqContent) ==
  IF IsRaise(respContent) THEN respContent
  ELSE IF IsRaise(reqContent) THEN reqContent
  ELSE IF method = sParameters /\ templ.params # <<>> /\ query_params # <<>>
       THEN Raise("TypeError")
  ELSE
  LET op0 == [responses |-> (str(resp.status_code) :>
                               [description |-> resp.reason, content |-> respContent.val])]
      op1 == IF method \in BODY_METHODS
             THEN [requestBody |-> [content |-> reqContent.val]] @@ op0
             ELSE op0
      qparams == split(query_params, "&")
      qpl == [n \in DOMAIN qparams |-> query_parameter(qparams[n])]
      op2 == IF query_params # <<>> THEN [parameters |-> qpl] @@ op1 ELSE op1
      result == IF templ.params # <<>>
                THEN (sParameters :> templ.params) @@ (method :> op2)
                ELSE (method :> op2)
  IN [url |-> templ.url, item |-> result]

\* the contents of the response and of the request, once both are decoded
PathItemContents(method, resp, query_params, templ, request, response) ==
  IF IsRaise(templ) THEN templ
  ELSE IF IsRaise(request) THEN request
  ELSE IF IsRaise(response) THEN response
  ELSE PathItemResult(method, resp, query_params, templ,
                      create_content(response.mimeType, response.value),
                      IF method \in BODY_METHODS
                      THEN create_content(request.mimeType, request.value)
                      ELSE None)

\* the decoded body of a message under the type its headers declare
decode_body(message) ==
  jsonify(message.content,
          split(get_header(message.headers, sContentType, TEXT_PLAIN), ";")[1])

\* the url split at the first '?' and templated
PathItemSplit(flow, url_path, query_params) ==
  PathItemContents(lower(flow.request.method), flow.response, query_params,
                   url_to_params(url_path),
                   IF lower(flow.request.method) \in BODY_METHODS
                   THEN decode_body(flow.request)
                   ELSE None,
                   decode_body(flow.response))

\* the part of path_item_create after the host check; url0 is the url
\* without hostbase
PathItemOf(flow, url0) ==
  IF Contains(url0, "?")
  THEN PathItemSplit(flow, split1(url0, "?")[1], split1(url0, "?")[2])
  ELSE PathItemSplit(flow, url0, <<>>)

\* path_item_create with `return None` moved into the branch that reports a
\* new prefix: a flow out of scope whose prefix was reported before goes on
path_item_create_reported_falls_through(flow, hostbase, nonBase) ==
  LET url0 == flow.request.host \o flow.request.path IN
  IF startswith(url0, hostbase \o <<"/">>)
  THEN [pi |-> PathItemOf(flow, Tail0(url0, Len(hostbase))),
        NON_BASE_URL |-> nonBase, printed |-> <<>>]
  ELSE
  LET num_slash == count(hostbase, "/")
      parts == split(url0, "/")
      nonBaseUrl == join("/", SubSeq(parts, 1, IF num_slash + 1 < Len(parts)
                                               THEN num_slash + 1 ELSE Len(parts)))
  IN IF nonBaseUrl \notin nonBase
     THEN [pi |-> None, NON_BASE_URL |-> nonBase \cup {nonBaseUrl},
           printed |-> <<nonBaseUrl>>]
     ELSE [pi |-> PathItemOf(flow, url0), NON_BASE_URL |-> nonBase, printed |-> <<>>]

\* path_item_create with the module's set _NON_BASE_URL and the printed lines
path_item_create(flow, hostbase, nonBase) ==
  LET url0 == flow.request.host \o flow.request.path IN
  IF startswith(url0, hostbase \o <<"/">>)
  THEN [pi |-> PathItemOf(flow, Tail0(url0, Len(hostbase))),
        NON_BASE_URL |-> nonBase, printed |-> <<>>]
  ELSE
  LET num_slash == count(hostbase, "/")
      parts == split(url0, "/")
      nonBaseUrl == join("/", SubSeq(parts, 1, IF num_slash + 1 < Len(parts)
                                               THEN num_slash + 1 ELSE Len(parts)))
  IN [pi |-> None,
      NON_BASE_URL |-> nonBase \cup {nonBaseUrl},
      printed |-> IF nonBaseUrl \notin nonBase THEN <<nonBaseUrl>> ELSE <<>>]

(***************************************************************************)
(* The parts of the state a run does not use                               *)
(***************************************************************************)
IdleSchema == samples = <<>> /\ schemas = <<>> /\ merged = EmptySchema
IdleUrl == url = <<>> /\ templated = EmptySchema
IdleJson == content = <<>> /\ mimeType = <<>> /\ decoded = EmptySchema
IdleApi == /\ flows = <<>> /\ host = <<>> /\ flowIndex = 0 /\ rezx = <<>>
           /\ NON_BASE_URL = {} /\ stdout = <<>> /\ oapi = EmptySchema

(***************************************************************************)
(* Inputs of the schema engine                                             *)
(***************************************************************************)
sA == <<"a">>
sB == <<"b">>

Leaves == {Str(sA), Num(1), Bool(TRUE), Bool(FALSE), Null}
ListElems == {Num(1), Str(sA), Null}
FieldVals == {Num(1), Str(sA)}
FieldSeqs == {<<>>}
     \cup {<<Field(key, v)>> : key \in {sA, sB}, v \in FieldVals}
     \cup {<<Field(sA, v), Field(sB, w)>> : v \in FieldVals, w \in FieldVals}
     \cup {<<Field(sB, v), Field(sA, w)>> : v \in FieldVals, w \in FieldVals}
InnerElems == {List(<<Num(1), Str(sA)>>), List(<<Num(1)>>), List(<<Null, Null>>)}
NestedObjs == {Obj(<<Field(sA, List(<<Num(1)>>))>>),
               Obj(<<Field(sA, Obj(<<Field(sB, Null)>>))>>)}

Values == Leaves
     \cup {List(xs) : xs \in SeqsUpTo(ListElems, MaxLen)}
     \cup {Obj(fs) : fs \in FieldSeqs}
     \cup {List(xs) : xs \in SeqsUpTo(InnerElems, MaxLen)}
     \cup NestedObjs

(***************************************************************************)
(* The schema engine run on a sequence of samples:                         *)
(* schema_merge([create_schema_for_value(v) for v in samples])             *)
(***************************************************************************)
InitSchema ==
  /\ pc = "infer"
  /\ samples \in SeqsUpTo(Values, MaxSamples) \ {<<>>}
  /\ schemas = <<>>
  /\ merged = EmptySchema
  /\ IdleUrl /\ IdleJson /\ IdleApi

Infer ==
  /\ pc = "infer"
  /\ Len(schemas) < Len(samples)
  /\ LET sch == create_schema_for_value(samples[Len(schemas) + 1]) IN
     IF IsRaise(sch)
     THEN /\ pc' = "raised"
          /\ merged' = sch
          /\ UNCHANGED schemas
     ELSE /\ schemas' = Append(schemas, sch)
          /\ UNCHANGED <<pc, merged>>
  /\ UNCHANGED <<samples, urlVars, jsonVars, apiVars>>

Merge ==
  /\ pc = "infer"
  /\ Len(schemas) = Len(samples)
  /\ merged' = schema_merge(schemas)
  /\ pc' = IF IsRaise(schema_merge(schemas)) THEN "raised" ELSE "merged"
  /\ UNCHANGED <<samples, schemas, urlVars, jsonVars, apiVars>>

NextSchema == Infer \/ Merge

SpecSchema == InitSchema /\ [][NextSchema]_vars

(***************************************************************************)
(* Properties of the schema engine                                         *)
(***************************************************************************)
Finished == pc \in {"merged", "raised"}
AllInferred == Len(schemas) = Len(samples)

\* v is an instance of schema S
RECURSIVE Instance(_, _)
Instance(v, S) ==
  IF S = EmptySchema THEN TRUE
  ELSE IF v.k = "null" THEN
    \/ Has(S, "nullable") /\ S.nullable
    \/ Has(S, "type") /\ S.type = "null"
    \/ Has(S, "anyOf") /\ \E alt \in S.anyOf : Instance(v, alt)
  ELSE IF Has(S, "anyOf") THEN \E alt \in S.anyOf : Instance(v, alt)
  ELSE IF ~Has(S, "type") THEN FALSE
  ELSE IF v.k = "str" THEN S.type = "string"
  ELSE IF v.k = "num" THEN S.type = "number"
  ELSE IF v.k = "bool" THEN S.type = "boolean"
  ELSE IF v.k = "list" THEN
    /\ S.type = "array"
    /\ Has(S, "items")
    /\ \A i \in DOMAIN v.items : Instance(v.items[i], S.items)
  ELSE
    /\ S.type = "object"
    /\ Has(S, "properties")
    /\ \A i \in DOMAIN v.fields :
         /\ v.fields[i].key \in DOMAIN S.properties
         /\ Instance(v.fields[i].val, S.properties[v.fields[i].key])

\* C1: the merge of the schemas inferred from a non-empty sequence of decoded
\* values exists and every one of the values is an instance of it.
C1_MergedSchemaSound ==
  Finished => /\ pc = "merged"
              /\ \A i \in DOMAIN samples : Instance(samples[i], merged)

ObservedKeys(value) == {value.fields[i].key : i \in DOMAIN value.fields}

SchemaOfOwnKind(value, sch) ==
  IF value.k = "str" THEN sch = [type |-> "string"]
  ELSE IF value.k = "num" THEN sch = [type |-> "number"]
  ELSE IF value.k = "bool" THEN sch = [type |-> "boolean"]
  ELSE IF value.k = "null" THEN sch = [type |-> "null"]
  ELSE IF value.k = "list" THEN
    value.items = <<>> => sch = [type |-> "array", items |-> EmptySchema]
  ELSE /\ Has(sch, "type") /\ sch.type = "object"
       /\ Has(sch, "properties") /\ DOMAIN sch.properties = ObservedKeys(value)
       /\ Has(sch, "required") /\ Range(sch.required) = ObservedKeys(value)
       /\ Len(sch.required) = Len(value.fields)

\* C2: create_schema_for_value gives every leaf the schema of its own kind
\* (string, number, boolean, null), the empty list an array with the empty
\* items schema, and an object its observed keys as properties and required.
C2_SchemaOfOwnKind ==
  \A i \in DOMAIN schemas : SchemaOfOwnKind(samples[i], schemas[i])

\* equivalence of schemas: equality, where the schema of null alone and the
\* nullable flag alone are taken to describe the same values
RECURSIVE Canon(_)
Canon(S) ==
  IF S = EmptySchema THEN S
  ELSE IF S = [type |-> "null"] THEN [nullable |-> TRUE]
  ELSE [f \in DOMAIN S |->
          IF f = "items" THEN Canon(S.items)
          ELSE IF f = "anyOf" THEN {Canon(alt) : alt \in S.anyOf}
          ELSE IF f = "properties"
               THEN [key \in DOMAIN S.properties |-> Canon(S.properties[key])]
          ELSE S[f]]

Equiv(S, T) == Canon(S) = Canon(T)

\* C3: merging k >= 1 copies of an inferred schema s returns a schema
\* equivalent to s, and for k = 1 s itself.
C3_MergeIdempotent ==
  (Finished /\ AllInferred /\ \A i \in DOMAIN schemas : schemas[i] = schemas[1])
    => /\ pc = "merged"
       /\ Equiv(merged, schemas[1])
       /\ Len(schemas) = 1 => merged = schemas[1]

Perms(n) == {p \in [1..n -> 1..n] : \A i, j \in 1..n : p[i] = p[j] => i = j}
IsNullable(S) == Has(S, "nullable") /\ S.nullable
TypeSet(S) ==
  IF Has(S, "anyOf") THEN {IF Has(alt, "type") THEN alt.type ELSE "?" : alt \in S.anyOf}
  ELSE IF Has(S, "type") THEN {S.type}
  ELSE {}

\* C4: for two or more schemas with a declared top-level type the merge is
\* nullable exactly when some input is null; with no other type it is the
\* nullable flag alone, with one other type it has that type, with several it
\* is a union with one alternative per type, none of them a union; the type
\* set and the nullability are the same for every permutation of the inputs.
C4_TopLevelShape ==
  (Finished /\ AllInferred /\ Len(schemas) >= 2)
    => LET inTypes == {schemas[i].type : i \in DOMAIN schemas}
           nonNull == inTypes \ {"null"}
       IN /\ pc = "merged"
          /\ IsNullable(merged) <=> "null" \in inTypes
          /\ nonNull = {} => merged = [nullable |-> TRUE]
          /\ Cardinality(nonNull) = 1 => Has(merged, "type") /\ merged.type \in nonNull
          /\ Cardinality(nonNull) > 1 =>
               /\ Has(merged, "anyOf")
               /\ Cardinality(merged.anyOf) = Cardinality(nonNull)
               /\ \A alt \in merged.anyOf : ~Has(alt, "anyOf")
               /\ TypeSet(merged) = nonNull
          /\ \A p \in Perms(Len(schemas)) :
               LET other == schema_merge([i \in DOMAIN schemas |-> schemas[p[i]]]) IN
               /\ ~IsRaise(other)
               /\ TypeSet(other) = TypeSet(merged)
               /\ IsNullable(other) <=> IsNullable(merged)

\* C5: the merge of two or more inferred object schemas marks as required
\* every key seen in any of them.
C5_RequiredIsUnionOfKeys ==
  (Finished /\ AllInferred /\ Len(samples) >= 2
     /\ \A i \in DOMAIN samples : samples[i].k = "obj")
    => /\ pc = "merged"
       /\ Has(merged, "required")
       /\ Range(merged.required) = UNION {ObservedKeys(samples[i]) : i \in DOMAIN samples}

\* C10: inferring the schema of a supported value never raises, also when
\* schema_merge is given schemas that schema_merge returned.
C10_InferenceTotal == pc # "raised"

(***************************************************************************)
(* URL templating run on one path                                          *)
(***************************************************************************)
sgUsers == <<"u", "s", "e", "r", "s">>
sg42 == <<"4", "2">>
sg007 == <<"0", "0", "7">>
sg4a == <<"4", "a">>
sgEmpty == <<>>
sgUuid == <<"5", "5", "0", "e", "8", "4", "0", "0", "-", "e", "2", "9", "b", "-",
            "4", "1", "d", "4", "-", "a", "7", "1", "6", "-",
            "4", "4", "6", "6", "5", "5", "4", "4", "0", "0", "0", "0">>
sgUuidUpper == <<"5", "5", "0", "E", "8", "4", "0", "0", "-", "E", "2", "9", "B", "-",
                 "4", "1", "D", "4", "-", "A", "7", "1", "6", "-",
                 "4", "4", "6", "6", "5", "5", "4", "4", "0", "0", "0", "0">>
sgShortUuid == SubSeq(sgUuid, 1, 35)
Segments == {sgUsers, sg42, sg007, sg4a, sgEmpty, sgUuid, sgUuidUpper, sgShortUuid}

PathOf(segs) == <<"/">> \o join("/", segs)

InitUrl ==
  /\ pc = "url"
  /\ url \in {PathOf(segs) : segs \in SeqsUpTo(Segments, MaxSegs)}
  /\ templated = EmptySchema
  /\ IdleSchema /\ IdleJson /\ IdleApi

Templatize ==
  /\ pc = "url"
  /\ templated' = url_to_params(url)
  /\ pc' = IF IsRaise(url_to_params(url)) THEN "raised" ELSE "templated"
  /\ UNCHANGED <<url, schemaVars, jsonVars, apiVars>>

NextUrl == Templatize

SpecUrl == InitUrl /\ [][NextUrl]_vars

\* what the templating is to return for the segments of a path: n counts the
\* parameter segments to the left
IsUuid(seg) == Len(seg) = 36 /\ UuidShape(seg)
IsParamSegment(seg) == isdigit(seg) \/ IsUuid(seg)
ParamsBefore(segs, i) == Cardinality({j \in 1..(i - 1) : IsParamSegment(segs[j])})
ExpectedTemplate(segs) ==
  PathOf([i \in DOMAIN segs |->
            IF IsParamSegment(segs[i])
            THEN <<"{">> \o sParam \o str(ParamsBefore(segs, i)) \o <<"}">>
            ELSE segs[i]])
ExpectedParams(segs) ==
  LET idx == {i \in DOMAIN segs : IsParamSegment(segs[i])}
      nth(n) == CHOOSE i \in idx : ParamsBefore(segs, i) = n
  IN [n \in 1..Cardinality(idx) |->
        [name |-> sParam \o str(n - 1), in |-> sPath, required |-> TRUE,
         schema |-> IF isdigit(segs[nth(n - 1)]) THEN [type |-> "number"]
                    ELSE [type |-> "string"],
         example |-> IF isdigit(segs[nth(n - 1)]) THEN Num(int(segs[nth(n - 1)]))
                     ELSE Str(PercentDecode(segs[nth(n - 1)]))]]

\* C6: url_to_params replaces every all-digit or UUID segment by {paramN}, N
\* counting from 0, leaves the other segments untouched, and returns one path
\* parameter per replaced segment: number with the integer value for digits,
\* string with the decoded text for a UUID.
C6_UrlTemplating ==
  pc \in {"templated", "raised"} =>
     LET segs == Tail(split(url, "/")) IN
     /\ pc = "templated"
     /\ templated.url = ExpectedTemplate(segs)
     /\ templated.params = ExpectedParams(segs)

(***************************************************************************)
(* Content decoding run on one body                                        *)
(***************************************************************************)
FORM_WITH_CHARSET == FORM_URLENCODED \o <<";", " ", "c", "h", "a", "r", "s", "e", "t", "=", "u", "t", "f", "-", "8">>
ContentChars == {"a", "1", "=", "&", "\"", "[", "]"}
MimeTypes == {TEXT_PLAIN, APPLICATION_JSON, FORM_URLENCODED, FORM_WITH_CHARSET}

InitJson ==
  /\ pc = "json"
  /\ content \in SeqsUpTo(ContentChars, MaxContentLen)
  /\ mimeType \in MimeTypes
  /\ decoded = EmptySchema
  /\ IdleSchema /\ IdleUrl /\ IdleApi

Jsonify ==
  /\ pc = "json"
  /\ decoded' = jsonify(content, mimeType)
  /\ pc' = IF IsRaise(jsonify(content, mimeType)) THEN "raised" ELSE "decoded"
  /\ UNCHANGED <<content, mimeType, schemaVars, urlVars, apiVars>>

NextJson == Jsonify

SpecJson == InitJson /\ [][NextJson]_vars

DeclaredType == split1(mimeType, ";")[1]
ParsesAsJson == ~IsRaise(json_loads(content))
PairKeys == {split1(pt, "=")[1] : pt \in Range(split(content, "&"))}

\* C9: jsonify never raises: content that parses as JSON gives the parsed
\* value under application/json, other content declared form-urlencoded gives
\* a flat mapping from the keys of its '&'-separated pairs to strings under
\* the declared type, anything else the raw string under the declared type.
C9_DecodingNeverFatal ==
  pc \in {"decoded", "raised"} =>
    /\ pc = "decoded"
    /\ ParsesAsJson =>
         decoded = [value |-> json_loads(content), mimeType |-> APPLICATION_JSON]
    /\ (~ParsesAsJson /\ DeclaredType = FORM_URLENCODED) =>
         /\ decoded.mimeType = DeclaredType
         /\ decoded.value.k = "obj"
         /\ ObservedKeys(decoded.value) = PairKeys
         /\ \A i \in DOMAIN decoded.value.fields : decoded.value.fields[i].val.k = "str"
    /\ (~ParsesAsJson /\ DeclaredType # FORM_URLENCODED) =>
         decoded = [value |-> Str(content), mimeType |-> DeclaredType]

(***************************************************************************)
(* openapi_create run on a sequence of flows                               *)
(***************************************************************************)
sOPENAPI_VERSION == <<"3", ".", "0", ".", "2">>
sTITLE == <<"A", " ", "G", "e", "n", "e", "r", "a", "t", "e", "d", " ", "O", "p", "e", "n", "A", "P", "I", " ", "S", "p", "e", "c">>
sVERSION == <<"0", ".", "0", ".", "1">>

\* the end of openapi_create: the merge of the collected path items, wrapped
openapi_of(items, base) ==
  LET result == dict_merge(LAMBDA key, pis : path_item_merge(pis), items) IN
  IF IsRaise(result) THEN result
  ELSE [openapi |-> sOPENAPI_VERSION,
        servers |-> <<[url |-> base]>>,
        info |-> [title |-> sTITLE, version |-> sVERSION],
        paths |-> result.val]

sGET == <<"G", "E", "T">>
sPOST == <<"P", "O", "S", "T">>
sOK == <<"O", "K">>
hostH == <<"h">>
hostO == <<"o">>
BaseHost == <<"h", "/", "v">>

Flow(h, path, method, reqHeaders, reqContent, respContent) ==
  [request |-> [host |-> h, path |-> path, method |-> method,
                headers |-> reqHeaders, content |-> reqContent],
   response |-> [status_code |-> 200, reason |-> sOK, headers |-> <<>>,
                 content |-> respContent]]

FormHeader == << <<<<"c", "o", "n", "t", "e", "n", "t", "-", "t", "y", "p", "e">>, FORM_WITH_CHARSET>> >>

InScopeFlows ==
  { Flow(hostH, <<"/", "v", "/", "a", "?", "q", "=", "1">>, sGET, <<>>, <<>>, <<"x">>),
    Flow(hostH, <<"/", "v", "/", "a", "?", "q", "=", "x">>, sGET, <<>>, <<>>, <<"1">>),
    Flow(hostH, <<"/", "v", "/", "a", "?", "q", "=", "2", "&", "q", "=", "3">>, sPOST, FormHeader, <<"a", "=", "1">>, <<"x">>),
    Flow(hostH, <<"/", "v", "/", "b", "/">> \o sgUuid, sGET, <<>>, <<>>, <<"[", "1", ",", "\"", "a", "\"", "]">>),
    Flow(hostH, <<"/", "v", "/", "b", "/">> \o sgUuidUpper \o <<"?", "x", "=", "1">>, sGET, <<>>, <<>>, <<"[", "1", "]">>),
    Flow(hostH, <<"/", "v", "/", "a", "/", "4", "2">>, sGET, <<>>, <<>>, <<"x">>) }

OutOfScopeFlows ==
  { Flow(hostO, <<"/", "v", "/", "a", "?", "q", "=", "1">>, sGET, <<>>, <<>>, <<"x">>),
    Flow(hostH, <<"/", "w", "/", "a">>, sPOST, FormHeader, <<"a">>, <<"x">>),
    Flow(hostH, <<"/", "v">>, sGET, <<>>, <<>>, <<"x">>) }

Flows == InScopeFlows \cup OutOfScopeFlows

\* prefixes that earlier runs in the same process may have reported
Prefixes == {<<"o", "/", "v">>, <<"h", "/", "w">>}

InitApi ==
  /\ pc = "flows"
  /\ flows \in SeqsUpTo(Flows, MaxFlows)
  /\ host = BaseHost
  /\ flowIndex = 0
  /\ rezx = <<>>
  /\ NON_BASE_URL \in SUBSET Prefixes
  /\ stdout = <<>>
  /\ oapi = EmptySchema
  /\ IdleSchema /\ IdleUrl /\ IdleJson

\* one turn of the loop of openapi_create
PathItemCreate ==
  /\ pc = "flows"
  /\ flowIndex < Len(flows)
  /\ \E r \in {path_item_create(flows[flowIndex + 1], host, NON_BASE_URL)} :
     /\ NON_BASE_URL' = r.NON_BASE_URL
     /\ stdout' = stdout \o r.printed
     /\ IF IsRaise(r.pi)
        THEN /\ pc' = "raised"
             /\ oapi' = r.pi
             /\ UNCHANGED <<flowIndex, rezx>>
        ELSE /\ rezx' = IF r.pi = None THEN rezx
                        ELSE Append(rezx, r.pi.url :> r.pi.item)
             /\ flowIndex' = flowIndex + 1
             /\ UNCHANGED <<pc, oapi>>
  /\ UNCHANGED <<flows, host, schemaVars, urlVars, jsonVars>>

\* after the loop: merge and wrap
Assemble ==
  /\ pc = "flows"
  /\ flowIndex = Len(flows)
  /\ LET doc == openapi_of(rezx, host) IN
     /\ oapi' = doc
     /\ pc' = IF IsRaise(doc) THEN "raised" ELSE "assembled"
  /\ UNCHANGED <<flows, host, flowIndex, rezx, NON_BASE_URL, stdout, schemaVars, urlVars, jsonVars>>

NextApi == PathItemCreate \/ Assemble

SpecApi == InitApi /\ [][NextApi]_vars

(***************************************************************************)
(* Properties of the assembly                                              *)
(***************************************************************************)
ApiFinished == pc \in {"assembled", "raised"}
InScope(flow) == startswith(flow.request.host \o flow.request.path, host \o <<"/">>)

\* the path item of one flow in scope, built on its own
SampleItem(flow) == path_item_create(flow, host, {}).pi

\* openapi_create of flows that are all in scope
AssembledFrom(fs) ==
  LET pis == [n \in DOMAIN fs |-> SampleItem(fs[n])] IN
  IF \E n \in DOMAIN fs : IsRaise(pis[n])
  THEN pis[CHOOSE n \in DOMAIN fs :
             IsRaise(pis[n]) /\ \A m \in 1..(n - 1) : ~IsRaise(pis[m])]
  ELSE openapi_of([n \in DOMAIN fs |-> pis[n].url :> pis[n].item], host)

\* C7: a flow out of scope never aborts openapi_create and adds nothing: the
\* outcome is the one of the flows in scope alone, wherever the others stand
\* and whatever prefixes had been reported before.
C7_OutOfScopeAddsNothing ==
  ApiFinished => oapi = AssembledFrom(SelectSeq(flows, InScope))

\* a document was assembled from flows in and out of scope, the prefixes of the
\* latter having been reported before
C7_Witness ==
  /\ pc = "assembled"
  /\ \E n \in DOMAIN flows : ~InScope(flows[n])
  /\ \E n \in DOMAIN flows : InScope(flows[n])
  /\ stdout = <<>>
  /\ DOMAIN oapi.paths # {}

\* every parameter of a path item: those of the path, then those of each operation
ParamsOfItem(item) ==
  LET methods == SortedSeq(DOMAIN item \ {sParameters})
      ofMethod(m) == IF Has(item[m], "parameters") THEN item[m].parameters ELSE <<>>
  IN (IF sParameters \in DOMAIN item THEN item[sParameters] ELSE <<>>)
       \o Flatten([n \in DOMAIN methods |-> ofMethod(methods[n])])

\* C8: for flows in scope that share a URL template every parameter (location
\* and name) is once in the merged path item, with the schema_merge of its
\* schemas in all the flows and the example of the first flow that has it.
C8_ParametersMerged ==
  (ApiFinished /\ flows # <<>> /\ \A n \in DOMAIN flows : InScope(flows[n]))
    => /\ \A n \in DOMAIN flows : ~IsRaise(SampleItem(flows[n]))
       /\ (\A n \in DOMAIN flows : SampleItem(flows[n]).url = SampleItem(flows[1]).url)
            => /\ pc = "assembled"
               /\ LET seen == Flatten([n \in DOMAIN flows |->
                                         ParamsOfItem(SampleItem(flows[n]).item)])
                      mergedParams == ParamsOfItem(oapi.paths[SampleItem(flows[1]).url])
                  IN \A k \in DOMAIN seen :
                       LET same == SelectSeq(seen, LAMBDA q : selector(q) = selector(seen[k]))
                           found == SelectSeq(mergedParams,
                                              LAMBDA q : selector(q) = selector(seen[k]))
                       IN /\ Len(found) = 1
                          /\ found[1].schema = schema_merge([j \in DOMAIN same |-> same[j].schema])
                          /\ found[1].example = same[1].example

====
